---- MODULE Spec2Model ----
(***************************************************************************)
(* taxe-server (src/server.js): the paired-session turn relay.             *)
(*                                                                         *)
(* The server keeps one process-wide object, games, keyed by game code,    *)
(* and two fields on every socket, gameID and role.  Each socket.io event  *)
(* handler runs to completion before the next one starts (single-threaded  *)
(* event loop), so each handler is one action.  A handler that throws      *)
(* (a TypeError on a property of null/undefined) is not caught anywhere:   *)
(* the exception leaves the handler half done and takes the process down;  *)
(* that is the state crashed = TRUE, from which nothing more happens.      *)
(*                                                                         *)
(* Not modelled: the created timestamps, the debug log, the port.          *)
(* Command arguments are of the documented types (names are strings,       *)
(* the acknowledgement callback is present).                               *)
(***************************************************************************)
EXTENDS Integers, Sequences, FiniteSets, TLC

VARIABLES
    conn,       \* socket -> "idle" | "open" | "closed" (the transport's connection)
    gameID,     \* socket.gameID : a game code or Null
    role,       \* socket.role   : "master" | "slave" | Null
    games,      \* the games object: a function whose domain is its own properties
    response,   \* what the last handler passed to respond(), and to whom; or NoResponse
    emitted,    \* the emit() calls the last handler made, in order (a call on a
                \* closed socket is made like any other and delivers nothing)
    crashed     \* an exception escaped a handler

vars == <<conn, gameID, role, games, response, emitted, crashed>>

(***************************************************************************)
(* Bounds of the model.                                                    *)
(***************************************************************************)
MaxSockets == 2

(***************************************************************************)
(* Values.                                                                 *)
(***************************************************************************)
Sockets == 1..MaxSockets

\* null, for a socket reference (games[..].sockets.slave)
NullSocket == 0

\* null, for socket.gameID and socket.role
Null == "null"

\* null, for players.slave: a name is held as <<name>>, null as <<>>
NoName == <<>>

Some(name) == <<name>>

\* Math.random().toString(36).substring(2, 7): up to five base-36 digits of the
\* fraction.  Math.random() ranges over [0, 1) (ECMAScript: "greater than or equal
\* to 0 but less than 1"): for 0 the string is "0" and the substring from index 2
\* is the empty string.
EmptyCode == ""

\* the codes the generator draws in Spec: the one of Math.random() = 0 and another
RandomCodes == {EmptyCode, "k3x9q"}

\* the codes the generator draws in SpecNonzero, where Math.random() never gives 0
NonzeroCodes == {"k3x9q", "7hz2m"}

Codes == RandomCodes \cup NonzeroCodes

\* player names, as sequences of characters
Names == {<<"J", "o">>, <<"J", "s">>}

Difficulties == {1}

\* the opaque game data
Data == {"D0", "D1"}

NoData == "-"

\* no respond() call (connect, disconnect, or a handler that threw before it)
NoResponse == [cmd |-> "none"]

\* respond({ok: ..., error: ...}) of handler cmd on socket s; the error texts are
\* named by what they report
Status(cmd, s, ok, error) == [cmd |-> cmd, to |-> s, ok |-> ok, error |-> error]

Ok(cmd, s) == Status(cmd, s, TRUE, "")

\* "Sorry, the Game could not be found."
NotFound(cmd, s) == Status(cmd, s, FALSE, "NotFound")

\* "Sorry, you cannot use the same nickname as your opponent."
NameCollision(cmd, s) == Status(cmd, s, FALSE, "NameCollision")

\* "Sorry, you are the master player or you have not joined a game." (M),
\* "Sorry, you are the slave player or you have not joined a game." (ET)
Forbidden(cmd, s) == Status(cmd, s, FALSE, "Forbidden")

Emit(to, ev, data) == [to |-> to, ev |-> ev, data |-> data]

\* (changed as a slip would: null not taken for falsy)
FalsyEmptyOnly(v) == v = EmptyCode

\* JavaScript's !v for the values socket.gameID takes: null and "" are falsy
Falsy(v) == v = Null \/ v = EmptyCode

\* games.hasOwnProperty(code)
HasGame(code) == code \in DOMAIN games

\* delete games[code]
Delete(code) == [c \in (DOMAIN games) \ {code} |-> games[c]]

----
(***************************************************************************)
(* Init: the server has started, no client has connected.                  *)
(***************************************************************************)
Init ==
    /\ conn = [s \in Sockets |-> "idle"]
    /\ gameID = [s \in Sockets |-> Null]
    /\ role = [s \in Sockets |-> Null]
    /\ games = << >>
    /\ response = NoResponse
    /\ emitted = << >>
    /\ crashed = FALSE

\* io.on('connection'): a new socket, not in a game.  Sockets are numbered in
\* the order they connect.
Connect(s) ==
    /\ ~crashed
    /\ conn[s] = "idle"
    /\ \A t \in 1..(s - 1) : conn[t] # "idle"
    /\ conn' = [conn EXCEPT ![s] = "open"]
    /\ gameID' = [gameID EXCEPT ![s] = Null]
    /\ role' = [role EXCEPT ![s] = Null]
    /\ response' = NoResponse
    /\ emitted' = << >>
    /\ UNCHANGED <<games, crashed>>

----
(***************************************************************************)
(* LG: list joinable games.                                                *)
(***************************************************************************)
\* (changed as a slip would: the test inverted)
IsJoinableInverted(g) == g.players.slave # NoName

\* a game is skipped when it already has a second player
IsJoinable(g) == g.players.slave = NoName

ListEntry(code) ==
    [id |-> code, name |-> games[code].name, difficulty |-> games[code].difficulty]

\* the list LG answers with (its order is the object's key order; kept as a set)
AvailableGames == {ListEntry(code) : code \in {c \in DOMAIN games : IsJoinable(games[c])}}

ListGames(s) ==
    /\ ~crashed
    /\ conn[s] = "open"
    /\ response' = [cmd |-> "LG", to |-> s, list |-> AvailableGames]
    /\ emitted' = << >>
    /\ UNCHANGED <<conn, gameID, role, games, crashed>>

----
(***************************************************************************)
(* CG: create game.                                                        *)
(***************************************************************************)
\* playerName.slice(-1)
LastChar(name) == IF Len(name) = 0 THEN "" ELSE name[Len(name)]

\* (changed as a slip would: the last character not looked at)
GameNameAlwaysS(playerName) == playerName \o <<"'", "s", " ", "G", "a", "m", "e">>

GameName(playerName) ==
    IF LastChar(playerName) # "s"
        THEN playerName \o <<"'", "s", " ", "G", "a", "m", "e">>
        ELSE playerName \o <<"'", " ", "G", "a", "m", "e">>

\* (changed as a slip would: the loop's test dropped, any generated code is taken)
IsFreshUnchecked(code) == TRUE

\* the do-while loop leaves with a generated code that is not a property of games
IsFresh(code) == ~HasGame(code)

\* (changed as a slip would: the creating socket stored in the second player's place)
NewGameAsSlave(s, playerName, difficulty, gameData) ==
    [name |-> GameName(playerName),
     difficulty |-> difficulty,
     players |-> [master |-> Some(playerName), slave |-> NoName],
     data |-> gameData,
     sockets |-> [master |-> NullSocket, slave |-> s]]

NewGame(s, playerName, difficulty, gameData) ==
    [name |-> GameName(playerName),
     difficulty |-> difficulty,
     players |-> [master |-> Some(playerName), slave |-> NoName],
     data |-> gameData,
     sockets |-> [master |-> s, slave |-> NullSocket]]

\* code is the gameID the loop leaves with
CreateGame(s, code, playerName, difficulty, gameData) ==
    /\ ~crashed
    /\ conn[s] = "open"
    /\ IsFresh(code)
    /\ games' = (code :> NewGame(s, playerName, difficulty, gameData)) @@ games
    /\ gameID' = [gameID EXCEPT ![s] = code]
    /\ role' = [role EXCEPT ![s] = "master"]
    /\ response' = [cmd |-> "CG", to |-> s, id |-> code,
                    name |-> GameName(playerName), difficulty |-> difficulty]
    /\ emitted' = << >>
    /\ UNCHANGED <<conn, crashed>>

----
(***************************************************************************)
(* JG: join game.                                                          *)
(***************************************************************************)
\* (changed as a slip would: the name compared with the wrong player's)
NameCollidesWithSlave(g, playerName) == g.players.slave = Some(playerName)

\* (changed as a slip would: the nickname check left out)
NameCollidesNever(g, playerName) == FALSE

\* the nickname check: games[gameID].players.master == playerName
NameCollides(g, playerName) == g.players.master = Some(playerName)

\* (changed as a slip would: the second player's socket not stored)
JoinedGameNameOnly(g, s, playerName) == [g EXCEPT !.players.slave = Some(playerName)]

\* the game with the second player's name and socket set
JoinedGame(g, s, playerName) ==
    [g EXCEPT !.players.slave = Some(playerName), !.sockets.slave = s]

JoinGame(s, code, playerName) ==
    /\ ~crashed
    /\ conn[s] = "open"
    /\ IF ~HasGame(code)
       THEN /\ response' = NotFound("JG", s)
            /\ emitted' = << >>
            /\ UNCHANGED <<gameID, role, games>>
       ELSE IF NameCollides(games[code], playerName)
       THEN /\ response' = NameCollision("JG", s)
            /\ emitted' = << >>
            /\ UNCHANGED <<gameID, role, games>>
       ELSE /\ games' = [games EXCEPT ![code] = JoinedGame(@, s, playerName)]
            /\ gameID' = [gameID EXCEPT ![s] = code]
            /\ role' = [role EXCEPT ![s] = "slave"]
            /\ response' = Ok("JG", s)
            /\ emitted' = <<Emit(games'[code].sockets.master, "GS", NoData),
                            Emit(games'[code].sockets.slave, "PP", games'[code].data)>>
    /\ UNCHANGED <<conn, crashed>>

----
(***************************************************************************)
(* M: move (the slave player's turn).                                      *)
(***************************************************************************)
\* (changed as a slip would: only the master is turned away)
MayMoveUnlessMaster(s) == role[s] # "master"

\* the handler goes on only for a socket whose role is 'slave'
MayMove(s) == role[s] = "slave"

\* (changed as a slip would: the data not stored)
StoreDataDropped(g, gameData) == g

\* games[gameID].data = gameData
StoreData(g, gameData) == [g EXCEPT !.data = gameData]

Move(s, gameData) ==
    /\ ~crashed
    /\ conn[s] = "open"
    /\ IF ~MayMove(s)
       THEN /\ response' = Forbidden("M", s)
            /\ emitted' = << >>
            /\ UNCHANGED <<games, crashed>>
       ELSE IF ~HasGame(gameID[s])
       \* games[gameID] is undefined: the assignment throws before respond()
       THEN /\ crashed' = TRUE
            /\ response' = NoResponse
            /\ emitted' = << >>
            /\ UNCHANGED games
       ELSE /\ games' = [games EXCEPT ![gameID[s]] = StoreData(@, gameData)]
            /\ response' = Ok("M", s)
            /\ emitted' = <<Emit(games'[gameID[s]].sockets.master, "PP",
                                 games'[gameID[s]].data)>>
            /\ UNCHANGED crashed
    /\ UNCHANGED <<conn, gameID, role>>

----
(***************************************************************************)
(* ET: end turn (the master player's turn).                                *)
(***************************************************************************)
\* the handler goes on only for a socket whose role is 'master'
MayEndTurn(s) == role[s] = "master"

EndTurn(s, gameData) ==
    /\ ~crashed
    /\ conn[s] = "open"
    /\ IF ~MayEndTurn(s)
       THEN /\ response' = Forbidden("ET", s)
            /\ emitted' = << >>
            /\ UNCHANGED <<games, crashed>>
       ELSE IF ~HasGame(gameID[s])
       \* games[gameID] is undefined: the assignment throws before respond()
       THEN /\ crashed' = TRUE
            /\ response' = NoResponse
            /\ emitted' = << >>
            /\ UNCHANGED games
       ELSE /\ games' = [games EXCEPT ![gameID[s]] = StoreData(@, gameData)]
            /\ response' = Ok("ET", s)
            /\ IF games'[gameID[s]].sockets.slave = NullSocket
               \* null.emit(...) throws, after the data is stored and respond() called
               THEN /\ crashed' = TRUE
                    /\ emitted' = << >>
               ELSE /\ emitted' = <<Emit(games'[gameID[s]].sockets.slave, "PP",
                                         games'[gameID[s]].data)>>
                    /\ UNCHANGED crashed
    /\ UNCHANGED <<conn, gameID, role>>

----
(***************************************************************************)
(* disconnect: the transport has closed the socket.                        *)
(***************************************************************************)
\* the opponent, by the role of the socket that left
Opponent(s, g) == IF role[s] = "master" THEN g.sockets.slave ELSE g.sockets.master

\* (changed as a slip would: opponent.role = null left out)
ClearedGameIDOnly(field, opponent) ==
    IF field = gameID THEN [field EXCEPT ![opponent] = Null] ELSE field

\* opponent.gameID = null; opponent.role = null
Cleared(field, opponent) == [field EXCEPT ![opponent] = Null]

Disconnect(s) ==
    /\ ~crashed
    /\ conn[s] = "open"
    /\ conn' = [conn EXCEPT ![s] = "closed"]
    /\ response' = NoResponse
    /\ IF Falsy(gameID[s])
       \* the player wasn't playing: nothing to do
       THEN /\ emitted' = << >>
            /\ UNCHANGED <<gameID, role, games, crashed>>
       ELSE IF ~HasGame(gameID[s])
       \* games[gameID] is undefined: reading its sockets throws
       THEN /\ crashed' = TRUE
            /\ emitted' = << >>
            /\ UNCHANGED <<gameID, role, games>>
       ELSE LET opponent == Opponent(s, games[gameID[s]]) IN
            /\ IF opponent # NullSocket
               THEN /\ emitted' = <<Emit(opponent, "EG", NoData)>>
                    /\ gameID' = Cleared(gameID, opponent)
                    /\ role' = Cleared(role, opponent)
               ELSE /\ emitted' = << >>
                    /\ UNCHANGED <<gameID, role>>
            /\ games' = Delete(gameID[s])
            /\ UNCHANGED crashed

----
(***************************************************************************)
(* One event of the server, the generator drawing its codes from codes     *)
(* (clients name the same codes when they join).                           *)
(***************************************************************************)
Step(codes) ==
    \/ \E s \in Sockets : Connect(s)
    \/ \E s \in Sockets : ListGames(s)
    \/ \E s \in Sockets, c \in codes, n \in Names, d \in Difficulties, g \in Data :
            CreateGame(s, c, n, d, g)
    \/ \E s \in Sockets, c \in codes, n \in Names : JoinGame(s, c, n)
    \/ \E s \in Sockets, g \in Data : Move(s, g)
    \/ \E s \in Sockets, g \in Data : EndTurn(s, g)
    \/ \E s \in Sockets : Disconnect(s)

Next == Step(RandomCodes)

Spec == Init /\ [][Next]_vars

\* the behaviours in which Math.random() never returns 0
NextNonzero == Step(NonzeroCodes)

SpecNonzero == Init /\ [][NextNonzero]_vars



----
(***************************************************************************)
(* What the properties read off a state.                                   *)
(***************************************************************************)
\* the last handler was cmd on socket s and answered {ok: true}
AcceptedBy(cmd, s) == response = Ok(cmd, s)

\* the frame of a handler that only answers its caller
NothingChanged ==
    /\ UNCHANGED <<conn, gameID, role, games, crashed>>
    /\ emitted' = << >>

----
(***************************************************************************)
(* C1.  Turn alternation: right after a successful JoinGame on a session,  *)
(* an EndTurn of that session's initiator (the joiner has not moved yet)   *)
(* is answered Forbidden and changes no game; and right after an accepted  *)
(* Move, a second Move of the same joiner is answered Forbidden and        *)
(* changes no game.                                                        *)
(***************************************************************************)
C1_TurnAlternation ==
    [][\A s \in Sockets, d \in Data :
        /\ ( /\ role[s] = "master"
             /\ \E j \in Sockets : AcceptedBy("JG", j) /\ gameID[j] = gameID[s]
             /\ EndTurn(s, d) )
           => (response' = Forbidden("ET", s) /\ games' = games)
        /\ ( /\ AcceptedBy("M", s)
             /\ Move(s, d) )
           => (response' = Forbidden("M", s) /\ games' = games)
      ]_vars

(***************************************************************************)
(* C2.  No command escapes as an uncaught failure: every handler runs to   *)
(* completion, in every reachable state.                                   *)
(***************************************************************************)
C2_NoUncaughtFailure == ~crashed

(***************************************************************************)
(* C3.  Disconnect cleanup of the registry: in every reachable state no    *)
(* game of the registry refers to a socket that has disconnected.          *)
(***************************************************************************)
C3_NoGameOfClosedSocket ==
    \A c \in DOMAIN games :
        /\ conn[games[c].sockets.master] # "closed"
        /\ games[c].sockets.slave # NullSocket => conn[games[c].sockets.slave] # "closed"

(***************************************************************************)
(* C4.  Disconnect notification of the survivor: when a socket bound to a  *)
(* game of the registry disconnects and the opposing socket (by role       *)
(* complement) is present and connected, exactly one EG is emitted, to     *)
(* that socket, and its gameID and role become null (a role of null is     *)
(* what M and ET answer Forbidden to, and CG and JG ask for no role).      *)
(***************************************************************************)
C4_SurvivorNotified ==
    [][\A s \in Sockets :
        ( /\ gameID[s] # Null
          /\ HasGame(gameID[s])
          /\ Opponent(s, games[gameID[s]]) # NullSocket
          /\ Disconnect(s)
          /\ conn'[Opponent(s, games[gameID[s]])] = "open" )
        => LET opponent == Opponent(s, games[gameID[s]]) IN
           /\ emitted' = <<Emit(opponent, "EG", NoData)>>
           /\ gameID'[opponent] = Null
           /\ role'[opponent] = Null
      ]_vars

C4_Witness ==
    \E s \in Sockets :
        /\ emitted = <<Emit(s, "EG", NoData)>>
        /\ conn[s] = "open"
        /\ gameID[s] = Null

(***************************************************************************)
(* C5.  Joinability: LG answers with the entry of a game exactly when the  *)
(* game is in the registry and has no slave socket, in every reachable     *)
(* state (for the list LG would give, and for the list it has just given). *)
(***************************************************************************)
C5_Joinability ==
    LET open == {c \in DOMAIN games : games[c].sockets.slave = NullSocket} IN
    /\ {e.id : e \in AvailableGames} = open
    /\ response.cmd = "LG" => {e.id : e \in response.list} = open

C5_Witness ==
    /\ response.cmd = "LG"
    /\ \E e \in response.list : games[e.id].sockets.slave = NullSocket
    /\ \E c \in DOMAIN games : games[c].sockets.slave # NullSocket

(***************************************************************************)
(* C6.  Forbidden leaves state unchanged: an M from a socket whose role is *)
(* not slave, and an ET from a socket whose role is not master, is         *)
(* answered {ok: false} (Forbidden), changes no game, no socket's gameID   *)
(* or role, and emits nothing.                                             *)
(***************************************************************************)
C6_ForbiddenChangesNothing ==
    [][\A s \in Sockets, d \in Data :
        /\ (role[s] # "slave" /\ Move(s, d))
           => (response' = Forbidden("M", s) /\ NothingChanged)
        /\ (role[s] # "master" /\ EndTurn(s, d))
           => (response' = Forbidden("ET", s) /\ NothingChanged)
      ]_vars

C6_Witness ==
    \E s \in Sockets :
        /\ response = Forbidden("M", s)
        /\ role[s] = "master"
        /\ HasGame(gameID[s])

(***************************************************************************)
(* C7.  Join failure: JG is answered NotFound when the code is not in the  *)
(* registry and NameCollision when it is and the name is the master's; in  *)
(* both cases no game, gameID or role changes, nothing is emitted, and the *)
(* caller stays connected to a running server (its next JG or CG is        *)
(* handled).                                                               *)
(***************************************************************************)
C7_JoinFailure ==
    [][\A s \in Sockets, c \in Codes, n \in Names :
        /\ (~HasGame(c) /\ JoinGame(s, c, n))
           => /\ response' = NotFound("JG", s)
              /\ NothingChanged
              /\ conn'[s] = "open"
        /\ (HasGame(c) /\ games[c].players.master = Some(n) /\ JoinGame(s, c, n))
           => /\ response' = NameCollision("JG", s)
              /\ NothingChanged
              /\ conn'[s] = "open"
      ]_vars

C7_Witness ==
    \E s \in Sockets :
        /\ response = NameCollision("JG", s)
        /\ role[s] = Null
        /\ \E c \in DOMAIN games : IsJoinable(games[c])

(***************************************************************************)
(* C8.  Join start sequence: a JG on a game of the registry with a name    *)
(* other than the master's records the caller as the slave (name and       *)
(* socket), sets the caller's gameID and role, answers ok, and emits       *)
(* exactly GS to the master socket and then PP to the caller with the      *)
(* game's data, which the join leaves as it was.                           *)
(***************************************************************************)
C8_JoinStartSequence ==
    [][\A s \in Sockets, c \in Codes, n \in Names :
        (HasGame(c) /\ games[c].players.master # Some(n) /\ JoinGame(s, c, n))
        => /\ response' = Ok("JG", s)
           /\ games'[c].players.slave = Some(n)
           /\ games'[c].sockets.slave = s
           /\ games'[c].data = games[c].data
           /\ gameID'[s] = c
           /\ role'[s] = "slave"
           /\ emitted' = <<Emit(games[c].sockets.master, "GS", NoData),
                           Emit(s, "PP", games[c].data)>>
      ]_vars

C8_Witness ==
    \E s \in Sockets :
        /\ AcceptedBy("JG", s)
        /\ role[s] = "slave"
        /\ HasGame(gameID[s])
        /\ games[gameID[s]].sockets.master # s
        /\ emitted = <<Emit(games[gameID[s]].sockets.master, "GS", NoData),
                       Emit(s, "PP", games[gameID[s]].data)>>

(***************************************************************************)
(* C9.  Move relay: an M from a socket whose role is slave and whose game  *)
(* is in the registry stores the data in that game, answers ok, and emits  *)
(* exactly one PP, with the data, to that game's master socket; every      *)
(* other game is unchanged.                                                *)
(***************************************************************************)
C9_MoveRelay ==
    [][\A s \in Sockets, d \in Data :
        (role[s] = "slave" /\ HasGame(gameID[s]) /\ Move(s, d))
        => /\ response' = Ok("M", s)
           /\ DOMAIN games' = DOMAIN games
           /\ games'[gameID[s]].data = d
           /\ \A c \in DOMAIN games : c # gameID[s] => games'[c] = games[c]
           /\ emitted' = <<Emit(games[gameID[s]].sockets.master, "PP", d)>>
      ]_vars

C9_Witness ==
    \E s \in Sockets :
        /\ AcceptedBy("M", s)
        /\ Cardinality(DOMAIN games) = 2
        /\ \E c \in DOMAIN games : games[c].data # games[gameID[s]].data

(***************************************************************************)
(* C10.  EndTurn relay: an ET from any socket whose role is master         *)
(* succeeds: it stores the data in that socket's game, answers ok, and     *)
(* emits exactly one PP, with the data, to that game's slave socket.       *)
(***************************************************************************)
C10_EndTurnRelay ==
    [][\A s \in Sockets, d \in Data :
        (role[s] = "master" /\ EndTurn(s, d))
        => /\ ~crashed'
           /\ response' = Ok("ET", s)
           /\ games'[gameID[s]].data = d
           /\ emitted' = <<Emit(games[gameID[s]].sockets.slave, "PP", d)>>
      ]_vars

(***************************************************************************)
(* C11.  Uniqueness, as claimed: a CG never returns a code that an earlier *)
(* CG has returned (a socket whose role is master holds the code its CG    *)
(* returned), whatever other commands came between.                        *)
(***************************************************************************)
C11_CodeNeverReturnedTwice ==
    [][\A s \in Sockets, c \in Codes, n \in Names, d \in Difficulties, g \in Data :
        CreateGame(s, c, n, d, g)
        => ~ \E t \in Sockets : role[t] = "master" /\ gameID[t] = c
      ]_vars

(***************************************************************************)
(* C11, amended.  A CG returns a code that is not a key of the registry    *)
(* at the time of the call, adds exactly that key, and leaves every game   *)
(* already in the registry as it was (so the games in the registry at any  *)
(* one time have distinct codes); a code may be returned again once its    *)
(* game has been deleted.                                                  *)
(***************************************************************************)
C11_FreshAgainstRegistry ==
    [][\A s \in Sockets, c \in Codes, n \in Names, d \in Difficulties, g \in Data :
        CreateGame(s, c, n, d, g)
        => /\ c \notin DOMAIN games
           /\ response'.id = c
           /\ DOMAIN games' = DOMAIN games \cup {c}
           /\ \A k \in DOMAIN games : games'[k] = games[k]
      ]_vars

C11_Witness ==
    /\ response.cmd = "CG"
    /\ Cardinality(DOMAIN games) = 2
    /\ \E c \in DOMAIN games : c # response.id /\ games[c].sockets.slave # NullSocket

(***************************************************************************)
(* C12.  Name distinctness: in every game of the registry whose second     *)
(* player is set, the second player's name differs from the first          *)
(* player's, whatever sequence of joins has been accepted.                 *)
(***************************************************************************)
C12_NameDistinctness ==
    \A c \in DOMAIN games :
        games[c].players.slave # NoName
        => games[c].players.slave # games[c].players.master

C12_Witness ==
    \E s \in Sockets :
        /\ response = Ok("JG", s)
        /\ games[gameID[s]].players.slave # NoName
        /\ games[gameID[s]].sockets.slave = s
        /\ games[gameID[s]].sockets.master # s

(***************************************************************************)
(* C13.  The disconnect of a socket in the lobby (gameID null) is a no-op: *)
(* the registry with every game in it, the gameID and role of every        *)
(* socket and the connection of every other socket are unchanged, no       *)
(* event is emitted and nothing is thrown.                                 *)
(***************************************************************************)
C13_LobbyDisconnectNoOp ==
    [][\A s \in Sockets :
        ( /\ gameID[s] = Null
          /\ Disconnect(s) )
        => /\ games' = games
           /\ gameID' = gameID
           /\ role' = role
           /\ \A t \in Sockets \ {s} : conn'[t] = conn[t]
           /\ emitted' = << >>
           /\ ~crashed'
      ]_vars

C13_Witness ==
    \E s \in Sockets, t \in Sockets :
        /\ conn[s] = "closed" /\ gameID[s] = Null
        /\ response = NoResponse /\ emitted = << >>
        /\ conn[t] = "open" /\ gameID[t] # Null /\ HasGame(gameID[t])

(***************************************************************************)
(* C14.  Create effects: a CG adds exactly one game, under the returned    *)
(* code, with the caller's name as first player, the given difficulty,     *)
(* data = gameData, the caller as master socket and no second player, so   *)
(* that the game is at once among those LG lists; it sets the caller's     *)
(* gameID to the new code and its role to master, and changes no other     *)
(* game and no other socket's gameID, role or connection.                  *)
(***************************************************************************)
C14_CreateEffects ==
    [][\A s \in Sockets, c \in Codes, n \in Names, d \in Difficulties, g \in Data :
        CreateGame(s, c, n, d, g)
        => /\ DOMAIN games' = DOMAIN games \cup {c} /\ c \notin DOMAIN games
           /\ games'[c].players.master = Some(n)
           /\ games'[c].difficulty = d
           /\ games'[c].data = g
           /\ games'[c].sockets.master = s
           /\ games'[c].players.slave = NoName
           /\ games'[c].sockets.slave = NullSocket
           /\ \E e \in AvailableGames' : e.id = c
           /\ gameID'[s] = c /\ role'[s] = "master"
           /\ response'.cmd = "CG" /\ response'.to = s /\ response'.id = c
           /\ \A k \in DOMAIN games : games'[k] = games[k]
           /\ \A t \in Sockets \ {s} : gameID'[t] = gameID[t] /\ role'[t] = role[t]
           /\ conn' = conn
      ]_vars

C14_Witness ==
    \E s \in Sockets, t \in Sockets :
        /\ s # t
        /\ response.cmd = "CG" /\ response.to = s
        /\ games[response.id].sockets.master = s
        /\ gameID[t] # Null /\ HasGame(gameID[t]) /\ gameID[t] # response.id

(***************************************************************************)
(* C15.  Name derivation: the game name a CG stores and returns is the     *)
(* player's name followed by "' Game" when the name's last character is    *)
(* 's', and by "'s Game" otherwise.                                        *)
(***************************************************************************)
C15_NameDerivation ==
    [][\A s \in Sockets, c \in Codes, n \in Names, d \in Difficulties, g \in Data :
        CreateGame(s, c, n, d, g)
        => LET displayName ==
                   IF Len(n) > 0 /\ n[Len(n)] = "s"
                   THEN n \o <<"'", " ", "G", "a", "m", "e">>
                   ELSE n \o <<"'", "s", " ", "G", "a", "m", "e">>
           IN /\ games'[c].name = displayName
              /\ response'.name = displayName
      ]_vars

C15_Witness ==
    /\ response.cmd = "CG"
    /\ response.name = <<"J", "s", "'", " ", "G", "a", "m", "e">>
    /\ games[response.id].name = response.name
    /\ \E c \in DOMAIN games : games[c].name = <<"J", "o", "'", "s", " ", "G", "a", "m", "e">>

(***************************************************************************)
(* C16, first half.  Last writer wins: an accepted M or ET of a socket     *)
(* stores its payload as the data of the socket's game.                    *)
(***************************************************************************)
C16_AcceptedPayloadStored ==
    [][\A s \in Sockets, d \in Data :
        ( /\ gameID[s] # Null /\ HasGame(gameID[s])
          /\ (Move(s, d) \/ EndTurn(s, d))
          /\ response'.ok )
        => games'[gameID[s]].data = d
      ]_vars

(***************************************************************************)
(* C16.  Data written only by the players: the data of a game that stays   *)
(* in the registry changes only in an M or ET step of a socket that the    *)
(* game holds as its master socket or as its slave socket, and then to     *)
(* that step's payload.                                                    *)
(***************************************************************************)
C16_DataChangedByPlayersOnly ==
    [][\A c \in DOMAIN games \cap DOMAIN games' :
        games'[c].data # games[c].data
        => \E s \in {games[c].sockets.master, games[c].sockets.slave} \ {NullSocket},
              d \in Data :
                /\ Move(s, d) \/ EndTurn(s, d)
                /\ games'[c].data = d
      ]_vars

(***************************************************************************)
(* C17.  Every socket's state is well-formed: its role is null exactly     *)
(* when its gameID is null.                                                *)
(***************************************************************************)
C17_RoleNullIffGameIDNull ==
    \A s \in Sockets : (role[s] = Null) <=> (gameID[s] = Null)

C17_Witness ==
    \E s \in Sockets, t \in Sockets :
        /\ emitted = <<Emit(t, "EG", NoData)>>
        /\ role[t] = Null /\ gameID[t] = Null
        /\ role[s] = "slave" /\ gameID[s] # Null

(***************************************************************************)
(* C18.  Referential integrity between the sockets' state and the          *)
(* registry: every open socket with gameID c and role master (slave) has   *)
(* c in the registry with itself as the game's master (slave) socket, and  *)
(* every game's master socket has gameID = the game's code and role        *)
(* master, and its slave socket, if set, has that code and role slave.     *)
(***************************************************************************)
C18_ReferentialIntegrity ==
    /\ \A s \in Sockets :
        (conn[s] = "open" /\ gameID[s] # Null)
        => /\ HasGame(gameID[s])
           /\ role[s] = "master" => games[gameID[s]].sockets.master = s
           /\ role[s] = "slave" => games[gameID[s]].sockets.slave = s
    /\ \A c \in DOMAIN games :
        LET master == games[c].sockets.master
            slave == games[c].sockets.slave
        IN /\ gameID[master] = c /\ role[master] = "master"
           /\ slave # NullSocket => (gameID[slave] = c /\ role[slave] = "slave")

(***************************************************************************)
(* C19.  A game pairs at most two sockets: the slave socket of a game      *)
(* that stays in the registry, once set, is not replaced; no game has its  *)
(* master socket as its slave socket; and a socket that a game of the      *)
(* registry holds under the socket's gameID keeps that gameID for as long  *)
(* as the game stays in the registry.                                      *)
(***************************************************************************)
C19_AtMostTwoSockets ==
    [][ /\ \A c \in DOMAIN games \cap DOMAIN games' :
            games[c].sockets.slave # NullSocket
            => games'[c].sockets.slave = games[c].sockets.slave
        /\ \A c \in DOMAIN games' :
            games'[c].sockets.slave # games'[c].sockets.master
        /\ \A s \in Sockets :
            ( /\ gameID[s] # Null /\ HasGame(gameID[s])
              /\ s \in {games[gameID[s]].sockets.master, games[gameID[s]].sockets.slave}
              /\ gameID[s] \in DOMAIN games' )
            => gameID'[s] = gameID[s]
      ]_vars

====
